---- MODULE Spec2Model ----
(***************************************************************************)
(* LexFlow Protocol: the approval workflow (backend/app/api/approvals.py)  *)
(* and the hash-chained audit trail (backend/app/services/                 *)
(* audit_service.py), over the persistent store reached through get_db     *)
(* (backend/app/core/database.py).                                         *)
(*                                                                         *)
(* SHA-256 is modelled as an injective function: a digest is the tuple of  *)
(* the strings that were hashed.  Fresh uuid4 identifiers are successive   *)
(* integers.  datetime.utcnow() reads the clock `now`, which advances by   *)
(* one with every handler.                                                 *)
(***************************************************************************)
EXTENDS Integers, Sequences, FiniteSets, TLC

\* ------------------------------------------------------------------ bounds
MaxEvents == 3
MaxTime == 4
MaxRequests == 1
MaxTasks == 3
MaxLinks == 2
MaxLimit == 3
MaxFlows == 1

\* ------------------------------------------------------------ value spaces
\* Python None / SQL NULL for string-valued columns
NULL == "NULL"
\* Python None / SQL NULL for hash-valued columns (prev_hash)
NoHash == <<>>
\* Python None for an event id (first_invalid_id)
NoId == 0

Workspaces == {"w1", "w2"}
Backends == {"sqlite", "postgresql"}

\* Python None for a datetime column (acted_at, revoked_at, consumed_at)
NoTime == -1

VARIABLES
    backend,      \* which store DATABASE_URL selects
    now,          \* the clock read by datetime.utcnow()
    events,       \* table audit_events, in insertion order
    requests,     \* table approval_requests; the id is the index
    tasks,        \* table approval_tasks; the id is the index
    links,        \* table magic_links; the id is the index
    resp,         \* the response of the last call
    tamper,       \* the row edited behind the service's back, and the table before
    notifications, \* table notifications, in insertion order
    sess,         \* the open sessions of handlers that run concurrently
    flows,        \* table approval_flows; the id is the index
    delivery      \* whether the mail server accepts messages ("up") or not ("down")

vars == <<backend, now, events, requests, tasks, links, resp, tamper, notifications, sess, flows, delivery>>

\* --------------------------------------------------------------- datetimes
\* datetime.utcnow(): a naive datetime (tzinfo is None)
utcnow(t) == [t |-> t, aware |-> FALSE]

\* datetime.isoformat(): an aware datetime carries its UTC offset
isoformat(dt) == <<dt.t, IF dt.aware THEN "+00:00" ELSE "">>

\* A created_at written to Column(DateTime(timezone=True)) and read back in a
\* later session: SQLite keeps no zone and returns the naive datetime,
\* PostgreSQL (asyncpg, TIMESTAMP WITH TIME ZONE) returns an aware one.
DbRoundTrip(b, dt) ==
    IF b = "postgresql" THEN [dt EXCEPT !.aware = TRUE]
    ELSE [dt EXCEPT !.aware = FALSE]

\* ------------------------------------------------------------------ hashing
\* Python `x or ''` on an Optional[str]
OrEmpty(x) == IF x = NULL THEN "" ELSE x

\* sha256 of "id|type|actor or ''|workspace or ''|contract or ''|detail or ''|
\* prev_hash or ''|timestamp"
compute_event_hash(event_id, event_type, actor_id, workspace_id, contract_id, detail_json, prev_hash, timestamp) ==
    <<event_id, event_type, OrEmpty(actor_id), OrEmpty(workspace_id),
      OrEmpty(contract_id), OrEmpty(detail_json), prev_hash, timestamp>>

\* ------------------------------------------------------------------ queries
\* a statement that lost its where clause: every row, whatever its workspace
ScopeIdx_unfiltered(evs, workspace_id) ==
    1..Len(evs)

\* the rows a statement with `if workspace_id: where(workspace_id == ...)`
\* selects: every row when no workspace id is given
ScopeIdx(evs, workspace_id) ==
    {i \in 1..Len(evs) :
        workspace_id = NULL \/ evs[i].workspace_id = workspace_id}

\* every order the store may return for ORDER BY created_at ASC: rows of equal
\* created_at come in any order
RECURSIVE OrderAsc(_, _)
OrderAsc(evs, S) ==
    IF S = {} THEN {<<>>}
    ELSE UNION {{<<evs[i]>> \o r : r \in OrderAsc(evs, S \ {i})} :
                i \in {k \in S : \A j \in S :
                          evs[k].created_at.t <= evs[j].created_at.t}}

get_latest_hash(evs, workspace_id) ==
    LET S == ScopeIdx(evs, workspace_id)
    IN  IF S = {} THEN {NoHash}
        ELSE {evs[i].hash :
                i \in {k \in S : \A j \in S :
                          evs[k].created_at.t >= evs[j].created_at.t}}

\* ---------------------------------------------------------------- log_event
\* str(uuid.uuid4()): an id no row carries
NewEventId(evs) == Len(evs) + 1

\* the AuditEvent objects log_event can add to a session that sees the rows evs
\* (one per row get_latest_hash can return); event_id is the uuid4 it draws
log_event(evs, event_id, t, event_type, actor_id, workspace_id, contract_id, resource_id, resource_type, detail_json) ==
    {LET created_at == utcnow(t)
         timestamp_str == isoformat(created_at)
     IN [id |-> event_id, type |-> event_type, actor_id |-> actor_id,
         workspace_id |-> workspace_id, contract_id |-> contract_id,
         resource_id |-> resource_id, resource_type |-> resource_type,
         detail_json |-> detail_json,
         prev_hash |-> prev_hash,
         hash |-> compute_event_hash(event_id, event_type, actor_id,
                     workspace_id, contract_id, detail_json, prev_hash,
                     timestamp_str),
         created_at |-> created_at]
     : prev_hash \in get_latest_hash(evs, workspace_id)}

\* the row a committed AuditEvent becomes
Persisted(b, ev) == [ev EXCEPT !.created_at = DbRoundTrip(b, ev.created_at)]

\* ------------------------------------------------------------- verify_chain
\* a walk that counts the failing event among the checked ones
RECURSIVE VerifyWalk_count_inclusive(_, _, _)
VerifyWalk_count_inclusive(rows, i, prev_hash) ==
    IF i > Len(rows)
    THEN [valid |-> TRUE, checked_count |-> Len(rows),
          first_invalid_id |-> NoId, reason |-> "ok"]
    ELSE LET event == rows[i]
             expected_hash ==
                 compute_event_hash(event.id, event.type, event.actor_id,
                     event.workspace_id, event.contract_id, event.detail_json,
                     event.prev_hash, isoformat(event.created_at))
         IN  IF event.prev_hash # prev_hash
             THEN [valid |-> FALSE, checked_count |-> i,
                   first_invalid_id |-> event.id, reason |-> "prev_hash"]
             ELSE IF event.hash # expected_hash
             THEN [valid |-> FALSE, checked_count |-> i,
                   first_invalid_id |-> event.id, reason |-> "hash"]
             ELSE VerifyWalk_count_inclusive(rows, i + 1, event.hash)

RECURSIVE VerifyWalk(_, _, _)
VerifyWalk(rows, i, prev_hash) ==
    IF i > Len(rows)
    THEN [valid |-> TRUE, checked_count |-> Len(rows),
          first_invalid_id |-> NoId, reason |-> "ok"]
    ELSE LET event == rows[i]
             expected_hash ==
                 compute_event_hash(event.id, event.type, event.actor_id,
                     event.workspace_id, event.contract_id, event.detail_json,
                     event.prev_hash, isoformat(event.created_at))
         IN  IF event.prev_hash # prev_hash
             THEN [valid |-> FALSE, checked_count |-> i - 1,
                   first_invalid_id |-> event.id, reason |-> "prev_hash"]
             ELSE IF event.hash # expected_hash
             THEN [valid |-> FALSE, checked_count |-> i - 1,
                   first_invalid_id |-> event.id, reason |-> "hash"]
             ELSE VerifyWalk(rows, i + 1, event.hash)

\* a verify_chain whose statement has no LIMIT
verify_chain_unlimited(evs, workspace_id, limit) ==
    {IF ord = <<>>
     THEN [valid |-> TRUE, checked_count |-> 0,
           first_invalid_id |-> NoId, reason |-> "empty"]
     ELSE VerifyWalk(ord, 1, NoHash)
     : ord \in OrderAsc(evs, ScopeIdx(evs, workspace_id))}

\* the results verify_chain can return: one per order the store may give
verify_chain(evs, workspace_id, limit) ==
    {LET rows == SubSeq(ord, 1, IF Len(ord) < limit THEN Len(ord) ELSE limit)
     IN  IF rows = <<>>
         THEN [valid |-> TRUE, checked_count |-> 0,
               first_invalid_id |-> NoId, reason |-> "empty"]
         ELSE VerifyWalk(rows, 1, NoHash)
     : ord \in OrderAsc(evs, ScopeIdx(evs, workspace_id))}

\* ---------------------------------------------------------------- sessions
\* a commit that writes the pending events over the latest row
commit_replace_last(b, evs, pending) ==
    SubSeq(evs, 1, Len(evs) - 1) \o [i \in 1..Len(pending) |-> Persisted(b, pending[i])]

\* session.commit(): the pending AuditEvent objects become rows
commit(b, evs, pending) ==
    evs \o [i \in 1..Len(pending) |-> Persisted(b, pending[i])]

\* get_db: `finally: await session.close()` ends the session without a commit;
\* what was added after the last commit is discarded
get_db(b, evs, pending) == evs

\* ---------------------------------------------------------------- responses
NoBody == [valid |-> TRUE, checked_count |-> 0, first_invalid_id |-> NoId, reason |-> "none"]

Response(op, code, detail, ref) ==
    [op |-> op, code |-> code, detail |-> detail, ref |-> ref, body |-> NoBody]

\* ------------------------------------------------------------ audit actions
\* GET /audit/verify: the default of the query parameter limit
DefaultLimit == 100

EventTypes == {"APPROVAL_REQUEST_CREATED"}
Actors == {NULL, "u1"}

\* append: log_event followed by commit, as the callers that persist an event
\* do (create_approval_request)
AppendEvent(event_type, actor_id, workspace_id) ==
    /\ Len(events) < MaxEvents
    /\ now < MaxTime
    /\ \E ev \in log_event(events, NewEventId(events), now, event_type, actor_id, workspace_id, NULL, NULL, NULL, NULL) :
          /\ events' = commit(backend, events, <<ev>>)
          /\ resp' = Response("append", 200, "ok", ev.id)
    /\ now' = now + 1
    /\ UNCHANGED <<delivery, flows, tamper, backend, requests, tasks, links, notifications, sess>>

\* GET /audit/verify
VerifyChain(workspace_id, limit) ==
    /\ \E r \in verify_chain(events, workspace_id, limit) :
          resp' = [op |-> "verify", code |-> 200, detail |-> workspace_id, ref |-> limit, body |-> r]
    /\ UNCHANGED <<delivery, flows, tamper, backend, now, events, requests, tasks, links, notifications, sess>>

\* --------------------------------------------------------- approval workflow
\* request.stages / flow.definition_json: a list of stage definitions, each
\* with its stage number and its assignees
User(id) == [type |-> "user", id |-> id]
External(id) == [type |-> "external", id |-> id]
Role(id) == [type |-> "role", id |-> id]
StageChoices ==
    { <<[stage |-> 1, assignees |-> <<User("u1"), User("u2")>>], [stage |-> 2, assignees |-> <<User("u3")>>]>>,
      <<[stage |-> 1, assignees |-> <<User("u1")>>], [stage |-> 2, assignees |-> <<External("x1")>>]>>,
      <<[stage |-> 1, assignees |-> <<>>]>>,
      <<>> }

\* ApprovalTaskAction: comment and signature of an action
ActionInputs ==
    { [comment |-> NULL, signature |-> NULL],
      [comment |-> "", signature |-> NULL],
      [comment |-> "c", signature |-> "sig"] }

\* the actions tried with approve: none or both of comment and signature
ApproveInputs ==
    { [comment |-> NULL, signature |-> NULL],
      [comment |-> "c", signature |-> "sig"] }

\* Python truthiness of an Optional[str]: None and '' are false
Truthy(x) == x # NULL /\ x # ""

\* the ApprovalTask rows create_approval_request adds for the stage definitions
RECURSIVE StageTasks(_, _, _, _)
StageTasks(request_id, stage_num, assignees, first_id) ==
    IF assignees = <<>> THEN <<>>
    ELSE <<[id |-> first_id, request_id |-> request_id, stage |-> stage_num,
            assignee_type |-> Head(assignees).type, assignee_id |-> Head(assignees).id,
            status |-> "pending", acted_at |-> NoTime, comment |-> NULL,
            signature_hash |-> NULL]>>
         \o StageTasks(request_id, stage_num, Tail(assignees), first_id + 1)

\* a fan-out that gives each stage one task, for its first assignee only
RECURSIVE FanOut_first_assignee(_, _, _)
FanOut_first_assignee(request_id, stages, first_id) ==
    IF stages = <<>> THEN <<>>
    ELSE LET first == IF Head(stages).assignees = <<>> THEN <<>> ELSE <<Head(Head(stages).assignees)>>
             here == StageTasks(request_id, Head(stages).stage, first, first_id)
         IN  here \o FanOut_first_assignee(request_id, Tail(stages), first_id + Len(here))

RECURSIVE FanOut(_, _, _)
FanOut(request_id, stages, first_id) ==
    IF stages = <<>> THEN <<>>
    ELSE LET here == StageTasks(request_id, Head(stages).stage, Head(stages).assignees, first_id)
         IN  here \o FanOut(request_id, Tail(stages), first_id + Len(here))

\* ------------------------------------------------------------ notifications
\* the rows of table users: the accounts a handler's lookup finds
RegisteredUsers == {"u0", "u1", "u2", "u3"}

\* NotificationService.send_email: True when the server took the message;
\* every exception of the SMTP exchange is caught and gives False
send_email(d) == d = "up"

\* NotificationService.create_and_send: the Notification row it commits, SENT
\* or FAILED by the result of the send
create_and_send(recipient, subject) ==
    [recipient |-> recipient, subject |-> subject,
     status |-> IF send_email(delivery) THEN "sent" ELSE "failed"]

\* a notification block whose failed delivery reaches the caller as an error
AfterNotify_propagate(ok, rows) ==
    IF \E i \in 1..Len(rows) : rows[i].status = "failed"
    THEN [ok EXCEPT !.code = 500, !.detail = "notification failed", !.ref = 0]
    ELSE ok

\* the answer of a handler after its notification block: a failed delivery
\* is recorded in the Notification row only, and the except clause around
\* the block lets nothing reach the caller
AfterNotify(ok, rows) == ok

\* the mail server goes down or comes back between two calls
DeliveryChange ==
    /\ delivery' = IF delivery = "up" THEN "down" ELSE "up"
    /\ UNCHANGED <<backend, now, events, requests, tasks, links, resp, tamper, notifications, sess, flows>>

\* the lookup of the user followed by notification_service.notify_user: the
\* Notification rows it adds (none when no such user exists)
notify_user(user_id, subject) ==
    IF user_id \in RegisteredUsers
    THEN <<create_and_send(user_id, subject)>>
    ELSE <<>>

\* a notification to every assignee of ts, of whatever kind
RECURSIVE NotifyAssignees_all_kinds(_)
NotifyAssignees_all_kinds(ts) ==
    IF ts = <<>> THEN <<>>
    ELSE <<create_and_send(Head(ts).assignee_id, "approval_request")>>
         \o NotifyAssignees_all_kinds(Tail(ts))

\* the approval-request notification to each user among the assignees of ts
RECURSIVE NotifyAssignees(_)
NotifyAssignees(ts) ==
    IF ts = <<>> THEN <<>>
    ELSE (IF Head(ts).assignee_type = "user"
          THEN notify_user(Head(ts).assignee_id, "approval_request")
          ELSE <<>>) \o NotifyAssignees(Tail(ts))

\* ----------------------------------------------------------- flow templates
\* flow_id: Optional[str] = None
NoFlow == 0

\* json.dumps([s.dict() for s in request.stages]): the text of the list
json_dumps(stages) == <<"json", stages>>

\* json.loads(flow.definition_json): the list the text denotes
json_loads(text) == text[2]

\* the stage lists a flow request carries; the empty list is a valid List
FlowStageChoices ==
    { <<[stage |-> 1, assignees |-> <<User("u1")>>], [stage |-> 2, assignees |-> <<User("u2")>>]>>,
      <<[stage |-> 1, assignees |-> <<User("u3")>>]>>,
      <<>> }

\* ApprovalFlowCreate: name, stages, is_active
FlowInputs ==
    { [name |-> "n1", stages |-> st, is_active |-> a] : st \in FlowStageChoices, a \in BOOLEAN }

\* select(ApprovalFlow).where(ApprovalFlow.id == flow_id): the row, 0 when
\* there is none
FindFlow(fls, flow_id) ==
    IF \E i \in 1..Len(fls) : fls[i].id = flow_id
    THEN CHOOSE i \in 1..Len(fls) : fls[i].id = flow_id
    ELSE 0

\* POST /approvals/flows
create_approval_flow(workspace_exists, request) ==
    /\ Len(flows) < MaxFlows
    /\ IF ~workspace_exists
       THEN /\ resp' = Response("create_approval_flow", 404, "workspace not found", 0)
            /\ UNCHANGED flows
       ELSE LET flow_id == Len(flows) + 1
            IN  /\ flows' = Append(flows, [id |-> flow_id, workspace_id |-> "w1",
                                           name |-> request.name,
                                           definition_json |-> json_dumps(request.stages),
                                           is_active |-> TRUE])
                /\ resp' = Response("create_approval_flow", 201, "created", flow_id)
    /\ UNCHANGED <<delivery, tamper, backend, now, events, requests, tasks, links, notifications, sess>>

\* PUT /approvals/flows/{flow_id}: the stages are replaced only by a list
\* that is not empty
update_approval_flow(flow_id, request) ==
    /\ LET i == FindFlow(flows, flow_id)
       IN  IF i = 0
           THEN /\ resp' = Response("update_approval_flow", 404, "flow not found", 0)
                /\ UNCHANGED flows
           ELSE /\ flows' = [flows EXCEPT ![i].name = request.name,
                                          ![i].is_active = request.is_active,
                                          ![i].definition_json =
                                              IF request.stages # <<>>
                                              THEN json_dumps(request.stages)
                                              ELSE @]
                /\ resp' = Response("update_approval_flow", 200, "updated", flow_id)
    /\ UNCHANGED <<delivery, tamper, backend, now, events, requests, tasks, links, notifications, sess>>

\* a deactivation that removes the row of the flow
deactivate_hard_delete(fls, i) == SubSeq(fls, 1, i - 1) \o SubSeq(fls, i + 1, Len(fls))

\* flow.is_active = False
deactivate(fls, i) == [fls EXCEPT ![i].is_active = FALSE]

\* DELETE /approvals/flows/{flow_id}
delete_approval_flow(flow_id) ==
    /\ LET i == FindFlow(flows, flow_id)
       IN  IF i = 0
           THEN /\ resp' = Response("delete_approval_flow", 404, "flow not found", 0)
                /\ UNCHANGED flows
           ELSE /\ flows' = deactivate(flows, i)
                /\ resp' = Response("delete_approval_flow", 200, "deactivated", flow_id)
    /\ UNCHANGED <<delivery, tamper, backend, now, events, requests, tasks, links, notifications, sess>>

\* the stage definitions create_approval_request fans out: those of the flow
\* when a flow_id is given, the inline ones otherwise
ResolveStages(fls, flow_id, stages) ==
    IF flow_id # NoFlow
    THEN (IF FindFlow(fls, flow_id) = 0 THEN <<>>
          ELSE json_loads(fls[FindFlow(fls, flow_id)].definition_json))
    ELSE stages

\* POST /approvals/requests
create_approval_request(contract_exists, flow_id, inline_stages, created_by) ==
    /\ Len(requests) < MaxRequests
    /\ Len(tasks) + Len(FanOut(0, ResolveStages(flows, flow_id, inline_stages), 1)) <= MaxTasks
    /\ IF ~contract_exists
       THEN /\ resp' = Response("create_approval_request", 404, "contract not found", 0)
            /\ UNCHANGED <<now, events, requests, tasks, notifications>>
       ELSE IF flow_id # NoFlow /\ FindFlow(flows, flow_id) = 0
       THEN /\ resp' = Response("create_approval_request", 404, "flow not found", 0)
            /\ UNCHANGED <<now, events, requests, tasks, notifications>>
       ELSE IF flow_id = NoFlow /\ inline_stages = <<>>
       THEN /\ resp' = Response("create_approval_request", 400, "flow_id or stages required", 0)
            /\ UNCHANGED <<now, events, requests, tasks, notifications>>
       ELSE LET request_id == Len(requests) + 1
                stages == ResolveStages(flows, flow_id, inline_stages)
            IN  /\ now < MaxTime
                /\ requests' = Append(requests, [id |-> request_id, contract_id |-> "c1", flow_id |-> flow_id, status |-> "pending", created_by |-> created_by])
                /\ tasks' = tasks \o FanOut(request_id, stages, Len(tasks) + 1)
                /\ \E ev \in log_event(events, NewEventId(events), now, "APPROVAL_REQUEST_CREATED", created_by, NULL, "c1", request_id, "approval_request", "detail") :
                      events' = commit(backend, events, <<ev>>)
                /\ notifications' = notifications \o
                      NotifyAssignees(SelectSeq(FanOut(request_id, stages, Len(tasks) + 1),
                                                LAMBDA t : t.stage = 1))
                /\ now' = now + 1
                /\ resp' = AfterNotify(Response("create_approval_request", 201, "pending", request_id),
                                       NotifyAssignees(SelectSeq(FanOut(request_id, stages, Len(tasks) + 1),
                                                                 LAMBDA t : t.stage = 1)))
    /\ UNCHANGED <<delivery, flows, tamper, backend, links, sess>>

\* the tasks of a request (selectinload(ApprovalRequest.tasks))
TasksOf(tks, request_id) == {i \in 1..Len(tks) : tks[i].request_id = request_id}

\* a progression that approves the request as soon as one task is approved
check_and_progress_request_any(reqs, tks, request_id) ==
    LET ts == TasksOf(tks, request_id)
    IN  IF \E i \in ts : tks[i].status = "approved" THEN "approved"
        ELSE IF \E i \in ts : tks[i].status = "rejected" THEN "rejected"
        ELSE IF \E i \in ts : tks[i].status = "returned" THEN "returned"
        ELSE reqs[request_id].status

\* _check_and_progress_request: the status the request has afterwards
check_and_progress_request(reqs, tks, request_id) ==
    LET ts == TasksOf(tks, request_id)
        all_approved == \A i \in ts : tks[i].status = "approved"
        has_rejected == \E i \in ts : tks[i].status = "rejected"
        has_returned == \E i \in ts : tks[i].status = "returned"
    IN  IF all_approved THEN "approved"
        ELSE IF has_rejected THEN "rejected"
        ELSE IF has_returned THEN "returned"
        ELSE reqs[request_id].status

\* a progression that notifies the lowest incomplete stage without looking at
\* the stage before it
ProgressNotifications_no_prev_check(reqs, tks, request_id) ==
    LET ts == TasksOf(tks, request_id)
        open == {tks[i].stage : i \in {j \in ts : tks[j].status # "approved"}}
    IN  IF open = {}
        THEN notify_user(reqs[request_id].created_by, "final_approved")
        ELSE IF \E i \in ts : tks[i].status \in {"rejected", "returned"} THEN <<>>
        ELSE NotifyAssignees(SelectSeq(tks, LAMBDA t :
                 /\ t.request_id = request_id
                 /\ t.stage = (CHOOSE s \in open : \A u \in open : s <= u)))

\* _check_and_progress_request: the notifications it sends, to the creator on
\* the final approval, or to the assignees of the lowest incomplete stage when
\* the stage before it is complete
ProgressNotifications(reqs, tks, request_id) ==
    LET ts == TasksOf(tks, request_id)
        all_approved == \A i \in ts : tks[i].status = "approved"
        has_rejected == \E i \in ts : tks[i].status = "rejected"
        has_returned == \E i \in ts : tks[i].status = "returned"
        all_stages == {tks[i].stage : i \in ts}
        stage_status(s) == \A i \in ts : tks[i].stage = s => tks[i].status = "approved"
        incomplete == {s \in all_stages : ~stage_status(s)}
    IN  IF all_approved
        THEN notify_user(reqs[request_id].created_by, "final_approved")
        ELSE IF has_rejected \/ has_returned THEN <<>>
        ELSE LET current_min_incomplete_stage ==
                     CHOOSE s \in incomplete : \A u \in incomplete : s <= u
             IN  IF /\ current_min_incomplete_stage > 1
                    /\ (current_min_incomplete_stage - 1) \in all_stages
                    /\ stage_status(current_min_incomplete_stage - 1)
                 THEN NotifyAssignees(SelectSeq(tks, LAMBDA t :
                          /\ t.request_id = request_id
                          /\ t.stage = current_min_incomplete_stage))
                 ELSE <<>>

\* _notify_requester_of_task_action: the status change goes to the creator
NotifyRequester(reqs, task) ==
    notify_user(reqs[task.request_id].created_by, "status_changed")

\* actor_id=task.assignee_id if task.assignee_type == ACLSubjectType.USER else None
ActorOf(task) == IF task.assignee_type = "user" THEN task.assignee_id ELSE NULL

\* the part the three task handlers share after the task has been changed:
\* the notifications, commit, then log_event on the session that get_db closes
FinishTaskAction(op, task_id, tks, new_status, sent, event_type) ==
    LET task == tks[task_id]
    IN  /\ now < MaxTime
        /\ tasks' = tks
        /\ requests' = [requests EXCEPT ![task.request_id].status = new_status]
        /\ \E ev \in log_event(events, NewEventId(events), now, event_type, ActorOf(task), NULL, NULL, task_id, "approval_task", "comment") :
              events' = get_db(backend, events, <<ev>>)
        /\ notifications' = notifications \o sent \o NotifyRequester(requests, task)
        /\ now' = now + 1
        /\ resp' = AfterNotify(Response(op, 200, "ok", task_id), sent \o NotifyRequester(requests, task))

\* the checks of a task handler without the test that the task is pending
TaskGuard_no_pending_check(op, task_id, needs_comment, action) ==
    IF task_id \notin 1..Len(tasks) THEN Response(op, 404, "task not found", 0)
    ELSE IF needs_comment /\ ~Truthy(action.comment) THEN Response(op, 400, "comment required", 0)
    ELSE Response(op, 200, "ok", task_id)

\* the checks of a task handler without the test that a comment was given
TaskGuard_no_comment_check(op, task_id, needs_comment, action) ==
    IF task_id \notin 1..Len(tasks) THEN Response(op, 404, "task not found", 0)
    ELSE IF tasks[task_id].status # "pending" THEN Response(op, 400, "already processed", 0)
    ELSE Response(op, 200, "ok", task_id)

\* the checks the three task handlers make before they change the task
TaskGuard(op, task_id, needs_comment, action) ==
    IF task_id \notin 1..Len(tasks) THEN Response(op, 404, "task not found", 0)
    ELSE IF tasks[task_id].status # "pending" THEN Response(op, 400, "already processed", 0)
    ELSE IF needs_comment /\ ~Truthy(action.comment) THEN Response(op, 400, "comment required", 0)
    ELSE Response(op, 200, "ok", task_id)

\* POST /approvals/tasks/{task_id}/approve
approve_task(task_id, action) ==
    /\ LET g == TaskGuard("approve_task", task_id, FALSE, action)
       IN  IF g.code # 200
           THEN resp' = g /\ UNCHANGED <<now, events, requests, tasks, notifications>>
           ELSE LET tks == [tasks EXCEPT ![task_id].status = "approved",
                                         ![task_id].acted_at = now,
                                         ![task_id].comment = action.comment,
                                         ![task_id].signature_hash = action.signature]
                IN  FinishTaskAction("approve_task", task_id, tks,
                        check_and_progress_request(requests, tks, tks[task_id].request_id),
                        ProgressNotifications(requests, tks, tks[task_id].request_id),
                        "APPROVAL_APPROVED")
    /\ UNCHANGED <<delivery, flows, tamper, backend, links, sess>>

\* POST /approvals/tasks/{task_id}/reject
reject_task(task_id, action) ==
    /\ LET g == TaskGuard("reject_task", task_id, TRUE, action)
       IN  IF g.code # 200
           THEN resp' = g /\ UNCHANGED <<now, events, requests, tasks, notifications>>
           ELSE LET tks == [tasks EXCEPT ![task_id].status = "rejected",
                                         ![task_id].acted_at = now,
                                         ![task_id].comment = action.comment,
                                         ![task_id].signature_hash = action.signature]
                IN  FinishTaskAction("reject_task", task_id, tks, "rejected", <<>>, "APPROVAL_REJECTED")
    /\ UNCHANGED <<delivery, flows, tamper, backend, links, sess>>

\* POST /approvals/tasks/{task_id}/return
return_task(task_id, action) ==
    /\ LET g == TaskGuard("return_task", task_id, TRUE, action)
       IN  IF g.code # 200
           THEN resp' = g /\ UNCHANGED <<now, events, requests, tasks, notifications>>
           ELSE LET tks == [tasks EXCEPT ![task_id].status = "returned",
                                         ![task_id].acted_at = now,
                                         ![task_id].comment = action.comment]
                IN  FinishTaskAction("return_task", task_id, tks, "returned", <<>>, "APPROVAL_RETURNED")
    /\ UNCHANGED <<delivery, flows, tamper, backend, links, sess>>

\* -------------------------------------------------------------- magic links
\* hashlib.sha256(raw_token.encode()).hexdigest()
TokenHash(raw_token) == <<"sha256", raw_token>>

\* secrets.token_urlsafe(32): a token no link was issued with
NewToken(lks) == Len(lks) + 1

ExpiresHours == {1, 2}

\* issuing without revoking the links the task already has
RevokeExisting_none(lks, task_id, t) == lks

\* an issue that revokes the live links of the task and makes its consumed
\* links usable again
RevokeExisting_reopen(lks, task_id, t) ==
    [i \in 1..Len(lks) |->
        IF lks[i].task_id # task_id \/ lks[i].revoked_at # NoTime THEN lks[i]
        ELSE IF lks[i].consumed_at = NoTime THEN [lks[i] EXCEPT !.revoked_at = t]
        ELSE [lks[i] EXCEPT !.consumed_at = NoTime]]

\* the existing links of the task that are neither revoked nor consumed get
\* revoked_at = utcnow()
RevokeExisting(lks, task_id, t) ==
    [i \in 1..Len(lks) |->
        IF /\ lks[i].task_id = task_id
           /\ lks[i].revoked_at = NoTime
           /\ lks[i].consumed_at = NoTime
        THEN [lks[i] EXCEPT !.revoked_at = t]
        ELSE lks[i]]

\* POST /approvals/tasks/{task_id}/magic-link
create_magic_link(task_id, expires_hours) ==
    /\ Len(links) < MaxLinks
    /\ IF task_id \notin 1..Len(tasks)
       THEN /\ resp' = Response("create_magic_link", 404, "task not found", 0)
            /\ UNCHANGED <<now, links>>
       ELSE LET raw_token == NewToken(links)
                magic_link == [id |-> Len(links) + 1, task_id |-> task_id,
                               token_hash |-> TokenHash(raw_token),
                               expires_at |-> now + expires_hours,
                               revoked_at |-> NoTime, consumed_at |-> NoTime]
            IN  /\ now < MaxTime
                /\ links' = Append(RevokeExisting(links, task_id, now), magic_link)
                /\ now' = now + 1
                /\ resp' = Response("create_magic_link", 200, "issued", raw_token)
    /\ UNCHANGED <<delivery, flows, tamper, backend, events, requests, tasks, notifications, sess>>

\* the link that stores the hash of the token; 0 when there is none
FindLink(lks, token) ==
    IF \E i \in 1..Len(lks) : lks[i].token_hash = TokenHash(token)
    THEN CHOOSE i \in 1..Len(lks) : lks[i].token_hash = TokenHash(token)
    ELSE 0

\* the checks of consume with the expiry tested before revocation and use
ConsumeGuard_expiry_first(lks, token, t) ==
    LET i == FindLink(lks, token)
    IN  IF i = 0 THEN Response("consume_magic_link", 404, "invalid link", 0)
        ELSE IF t > lks[i].expires_at THEN Response("consume_magic_link", 400, "expired", 0)
        ELSE IF lks[i].revoked_at # NoTime THEN Response("consume_magic_link", 400, "revoked", 0)
        ELSE IF lks[i].consumed_at # NoTime THEN Response("consume_magic_link", 400, "already used", 0)
        ELSE Response("consume_magic_link", 200, "valid", i)

\* the checks of consume without the test that the link was consumed
ConsumeGuard_no_consumed_check(lks, token, t) ==
    LET i == FindLink(lks, token)
    IN  IF i = 0 THEN Response("consume_magic_link", 404, "invalid link", 0)
        ELSE IF lks[i].revoked_at # NoTime THEN Response("consume_magic_link", 400, "revoked", 0)
        ELSE IF t > lks[i].expires_at THEN Response("consume_magic_link", 400, "expired", 0)
        ELSE Response("consume_magic_link", 200, "valid", i)

\* the checks consume makes on the link before it marks it consumed
ConsumeGuard(lks, token, t) ==
    LET i == FindLink(lks, token)
    IN  IF i = 0 THEN Response("consume_magic_link", 404, "invalid link", 0)
        ELSE IF lks[i].revoked_at # NoTime THEN Response("consume_magic_link", 400, "revoked", 0)
        ELSE IF lks[i].consumed_at # NoTime THEN Response("consume_magic_link", 400, "already used", 0)
        ELSE IF t > lks[i].expires_at THEN Response("consume_magic_link", 400, "expired", 0)
        ELSE Response("consume_magic_link", 200, "valid", i)

\* POST /approvals/magic-link/{token}/consume
consume_magic_link(token) ==
    /\ LET g == ConsumeGuard(links, token, now)
       IN  IF g.code # 200
           THEN resp' = g /\ UNCHANGED <<now, links>>
           ELSE LET task_id == links[g.ref].task_id
                IN  /\ now < MaxTime
                    /\ links' = [links EXCEPT ![g.ref].consumed_at = now]
                    /\ now' = now + 1
                    /\ resp' = [g EXCEPT !.ref = task_id,
                                         !.body = [task_id |-> task_id,
                                                   request_id |-> tasks[task_id].request_id]]
    /\ UNCHANGED <<delivery, flows, tamper, backend, events, requests, tasks, notifications, sess>>

\* DELETE /approvals/magic-link/{link_id}
revoke_magic_link(link_id) ==
    /\ IF link_id \notin 1..Len(links)
       THEN /\ resp' = Response("revoke_magic_link", 404, "link not found", 0)
            /\ UNCHANGED <<now, links>>
       ELSE /\ now < MaxTime
            /\ links' = [links EXCEPT ![link_id].revoked_at = now]
            /\ now' = now + 1
            /\ resp' = Response("revoke_magic_link", 200, "revoked", link_id)
    /\ UNCHANGED <<delivery, flows, tamper, backend, events, requests, tasks, notifications, sess>>

\* time passes between two calls; the handlers observe the clock only through
\* the expiry of a link (every other use records it), so it is let run on its
\* own while some link has not expired yet
Tick ==
    /\ now < MaxTime
    /\ \E i \in 1..Len(links) : now <= links[i].expires_at
    /\ now' = now + 1
    /\ UNCHANGED <<delivery, flows, tamper, backend, events, requests, tasks, links, resp, notifications, sess>>

\* ----------------------------------------------------- concurrent sessions
\* the handlers that run concurrently, each with its own session from get_db
Sessions == {1, 2}

\* a session no handler has open
Idle == [pc |-> "idle", op |-> "none", arg |-> <<>>]

\* SQLite admits one writing transaction: a session can flush only while no
\* other session has flushed and not yet committed
WriteLockFree(s) ==
    backend = "sqlite" => \A o \in Sessions \ {s} : sess[o].pc # "flushed"

\* a persistence failure (or the lock timeout) in a handler that has not
\* committed: the session is rolled back and closed, the call answers 500
SessionFail(s) ==
    /\ sess[s].pc # "idle"
    /\ sess' = [sess EXCEPT ![s] = Idle]
    /\ resp' = Response(sess[s].op, 500, "internal error", 0)
    /\ UNCHANGED <<delivery, flows, tamper, backend, now, events, requests, tasks, links, notifications>>

\* approve_task up to its first await after the task was changed: the task is
\* loaded and checked, and changed in the session only
ApproveBegin(s, task_id, action) ==
    /\ sess[s].pc = "idle"
    /\ LET g == TaskGuard("approve_task", task_id, FALSE, action)
       IN  IF g.code # 200
           THEN resp' = g /\ UNCHANGED sess
           ELSE /\ sess' = [sess EXCEPT ![s] =
                       [pc |-> "dirty", op |-> "approve_task",
                        arg |-> [task_id |-> task_id, action |-> action, acted_at |-> now]]]
                /\ UNCHANGED resp
    /\ UNCHANGED <<delivery, flows, tamper, backend, now, events, requests, tasks, links, notifications>>

\* the rows of approval_tasks a session sees: the committed rows, with the
\* change it made itself
SessionTasks(s) ==
    LET a == sess[s].arg
    IN  [tasks EXCEPT ![a.task_id].status = IF sess[s].op = "reject_task" THEN "rejected" ELSE "approved",
                      ![a.task_id].acted_at = a.acted_at,
                      ![a.task_id].comment = a.action.comment,
                      ![a.task_id].signature_hash = a.action.signature]

\* the UPDATE of a task row waits while another session has updated the row
\* and not yet committed
RowLockFree(s) ==
    \A o \in Sessions \ {s} :
        ~(sess[o].pc = "flushed" /\ sess[o].op \in {"approve_task", "reject_task"}
            /\ sess[o].arg.task_id = sess[s].arg.task_id)

\* _check_and_progress_request in the session: the query flushes the changed
\* task (taking the write lock, or the lock of the row), then reads the
\* request and its tasks as committed at that moment
ApproveProgress(s) ==
    /\ sess[s].pc = "dirty"
    /\ sess[s].op = "approve_task"
    /\ WriteLockFree(s)
    /\ RowLockFree(s)
    /\ LET tks == SessionTasks(s)
           request_id == tks[sess[s].arg.task_id].request_id
       IN  sess' = [sess EXCEPT ![s].pc = "flushed",
                       ![s].arg = sess[s].arg @@
                           [loaded_status |-> requests[request_id].status,
                            new_status |-> check_and_progress_request(requests, tks, request_id),
                            sent |-> ProgressNotifications(requests, tks, request_id)]]
    /\ UNCHANGED <<delivery, flows, tamper, backend, now, events, requests, tasks, links, notifications, resp>>

\* the commit of approve_task (the first commit is the one inside
\* notification_service.create_and_send) and the rest of the handler: the
\* task row and, when the status was changed, the request row are written;
\* log_event comes after the commit, on the session that get_db closes
ApproveCommit(s) ==
    /\ sess[s].pc = "flushed"
    /\ sess[s].op = "approve_task"
    /\ now < MaxTime
    /\ LET a == sess[s].arg
           tks == SessionTasks(s)
           task == tks[a.task_id]
       IN  /\ tasks' = tks
           /\ requests' = IF a.new_status # a.loaded_status
                           THEN [requests EXCEPT ![task.request_id].status = a.new_status]
                           ELSE requests
           /\ notifications' = notifications \o a.sent \o NotifyRequester(requests, task)
           /\ \E ev \in log_event(events, NewEventId(events), now, "APPROVAL_APPROVED", ActorOf(task), NULL, NULL, a.task_id, "approval_task", "comment") :
                 events' = get_db(backend, events, <<ev>>)
           /\ resp' = AfterNotify(Response("approve_task", 200, "ok", a.task_id),
                                  a.sent \o NotifyRequester(requests, task))
    /\ sess' = [sess EXCEPT ![s] = Idle]
    /\ now' = now + 1
    /\ UNCHANGED <<delivery, flows, tamper, backend, links>>

\* reject_task up to its first await after the task was changed: the task is
\* loaded and checked, and changed in the session only
RejectBegin(s, task_id, action) ==
    /\ sess[s].pc = "idle"
    /\ LET g == TaskGuard("reject_task", task_id, TRUE, action)
       IN  IF g.code # 200
           THEN resp' = g /\ UNCHANGED sess
           ELSE /\ sess' = [sess EXCEPT ![s] =
                       [pc |-> "dirty", op |-> "reject_task",
                        arg |-> [task_id |-> task_id, action |-> action, acted_at |-> now]]]
                /\ UNCHANGED resp
    /\ UNCHANGED <<delivery, flows, tamper, backend, now, events, requests, tasks, links, notifications>>

\* the query of reject_task for the request: it flushes the changed task
\* (taking the write lock, or the lock of the row) and loads the request
RejectProgress(s) ==
    /\ sess[s].pc = "dirty"
    /\ sess[s].op = "reject_task"
    /\ WriteLockFree(s)
    /\ RowLockFree(s)
    /\ sess' = [sess EXCEPT ![s].pc = "flushed"]
    /\ UNCHANGED <<delivery, flows, tamper, backend, now, events, requests, tasks, links, notifications, resp>>

\* the commit of reject_task and the rest of the handler: the task row and
\* the request row (status REJECTED) are written; log_event comes after the
\* commit, on the session that get_db closes
RejectCommit(s) ==
    /\ sess[s].pc = "flushed"
    /\ sess[s].op = "reject_task"
    /\ now < MaxTime
    /\ LET a == sess[s].arg
           tks == SessionTasks(s)
           task == tks[a.task_id]
       IN  /\ tasks' = tks
           /\ requests' = [requests EXCEPT ![task.request_id].status = "rejected"]
           /\ notifications' = notifications \o NotifyRequester(requests, task)
           /\ \E ev \in log_event(events, NewEventId(events), now, "APPROVAL_REJECTED", ActorOf(task), NULL, NULL, a.task_id, "approval_task", "comment") :
                 events' = get_db(backend, events, <<ev>>)
           /\ resp' = AfterNotify(Response("reject_task", 200, "ok", a.task_id), NotifyRequester(requests, task))
    /\ sess' = [sess EXCEPT ![s] = Idle]
    /\ now' = now + 1
    /\ UNCHANGED <<delivery, flows, tamper, backend, links>>

\* uuid4 in a session that runs beside others: an id no other session draws
SessionEventId(s, evs) == 100 * s + Len(evs)

\* the events that are committed or pending in a session
PendingAppends == Cardinality({s \in Sessions : sess[s].op = "append"})

\* an append (log_event, then commit) up to the commit, as in
\* create_approval_request: the query of get_latest_hash flushes the rows the
\* handler has added, then reads the latest committed event
AppendBegin(s, actor_id, workspace_id) ==
    /\ sess[s].pc = "idle"
    /\ Len(events) + PendingAppends < MaxEvents
    /\ WriteLockFree(s)
    /\ \E ev \in log_event(events, SessionEventId(s, events), now, "APPROVAL_REQUEST_CREATED", actor_id, workspace_id, NULL, NULL, NULL, NULL) :
          sess' = [sess EXCEPT ![s] = [pc |-> "flushed", op |-> "append", arg |-> [ev |-> ev]]]
    /\ UNCHANGED <<delivery, flows, tamper, backend, now, events, requests, tasks, links, notifications, resp>>

\* the commit of the append
AppendCommit(s) ==
    /\ sess[s].pc = "flushed"
    /\ sess[s].op = "append"
    /\ now < MaxTime
    /\ events' = commit(backend, events, <<sess[s].arg.ev>>)
    /\ resp' = Response("append", 200, "ok", sess[s].arg.ev.id)
    /\ sess' = [sess EXCEPT ![s] = Idle]
    /\ now' = now + 1
    /\ UNCHANGED <<delivery, flows, tamper, backend, requests, tasks, links, notifications>>

\* the links that are committed or about to be inserted by a session
PendingIssues == Cardinality({s \in Sessions : sess[s].op = "create_magic_link"})

\* create_magic_link up to its commit: the task and the links to revoke are
\* read, the new link is built
IssueBegin(s, task_id, expires_hours) ==
    /\ sess[s].pc = "idle"
    /\ Len(links) + PendingIssues < MaxLinks
    /\ IF task_id \notin 1..Len(tasks)
       THEN /\ resp' = Response("create_magic_link", 404, "task not found", 0)
            /\ UNCHANGED sess
       ELSE /\ sess' = [sess EXCEPT ![s] =
                   [pc |-> "read", op |-> "create_magic_link",
                    arg |-> [task_id |-> task_id,
                             existing_links |-> {i \in 1..Len(links) :
                                 RevokeExisting(links, task_id, now)[i] # links[i]},
                             t |-> now,
                             expires_at |-> now + expires_hours]]]
            /\ UNCHANGED resp
    /\ UNCHANGED <<delivery, flows, tamper, backend, now, events, requests, tasks, links, notifications>>

\* the commit of create_magic_link: the links it had read are revoked, the new
\* link is inserted
IssueCommit(s) ==
    /\ sess[s].pc = "read"
    /\ sess[s].op = "create_magic_link"
    /\ now < MaxTime
    /\ LET a == sess[s].arg
           raw_token == NewToken(links)
           magic_link == [id |-> Len(links) + 1, task_id |-> a.task_id,
                          token_hash |-> TokenHash(raw_token),
                          expires_at |-> a.expires_at,
                          revoked_at |-> NoTime, consumed_at |-> NoTime]
       IN  /\ links' = Append([i \in 1..Len(links) |->
                                  IF i \in a.existing_links
                                  THEN [links[i] EXCEPT !.revoked_at = a.t]
                                  ELSE links[i]], magic_link)
           /\ resp' = Response("create_magic_link", 200, "issued", raw_token)
    /\ sess' = [sess EXCEPT ![s] = Idle]
    /\ now' = now + 1
    /\ UNCHANGED <<delivery, flows, tamper, backend, events, requests, tasks, notifications>>

\* the requests that are committed or pending in a session
PendingCreates == Cardinality({s \in Sessions : sess[s].op = "create_approval_request"})

\* the tasks that are pending in the sessions S
RECURSIVE PendingTasks(_)
PendingTasks(S) ==
    IF S = {} THEN 0
    ELSE LET s == CHOOSE x \in S : TRUE
         IN  (IF sess[s].op = "create_approval_request"
              THEN Len(FanOut(0, sess[s].arg.stages, 1)) ELSE 0) + PendingTasks(S \ {s})

\* create_approval_request up to its commit: the contract and the flow are
\* looked up, the request is added and flushed, the tasks are added, and
\* log_event reads the latest event and adds the new one
CreateBegin(s, contract_exists, flow_id, inline_stages, created_by) ==
    /\ sess[s].pc = "idle"
    /\ Len(requests) + PendingCreates < MaxRequests
    /\ Len(events) + PendingCreates < MaxEvents
    /\ Len(tasks) + PendingTasks(Sessions) + Len(FanOut(0, ResolveStages(flows, flow_id, inline_stages), 1)) <= MaxTasks
    /\ IF ~contract_exists
       THEN /\ resp' = Response("create_approval_request", 404, "contract not found", 0)
            /\ UNCHANGED sess
       ELSE IF flow_id # NoFlow /\ FindFlow(flows, flow_id) = 0
       THEN /\ resp' = Response("create_approval_request", 404, "flow not found", 0)
            /\ UNCHANGED sess
       ELSE IF flow_id = NoFlow /\ inline_stages = <<>>
       THEN /\ resp' = Response("create_approval_request", 400, "flow_id or stages required", 0)
            /\ UNCHANGED sess
       ELSE /\ WriteLockFree(s)
            /\ \E ev \in log_event(events, SessionEventId(s, events), now, "APPROVAL_REQUEST_CREATED", created_by, NULL, "c1", NoId, "approval_request", "detail") :
                  sess' = [sess EXCEPT ![s] =
                      [pc |-> "flushed", op |-> "create_approval_request",
                       arg |-> [flow_id |-> flow_id, inline_stages |-> inline_stages,
                                stages |-> ResolveStages(flows, flow_id, inline_stages),
                                created_by |-> created_by, ev |-> ev]]]
            /\ UNCHANGED resp
    /\ UNCHANGED <<delivery, flows, tamper, backend, now, events, requests, tasks, links, notifications>>

\* the commit of create_approval_request and the rest of the handler: the
\* request, its tasks and the audit event become rows together; the ids the
\* rows are known by are given here; then the assignees of stage 1 are told
CreateCommit(s) ==
    /\ sess[s].pc = "flushed"
    /\ sess[s].op = "create_approval_request"
    /\ now < MaxTime
    /\ LET a == sess[s].arg
           request_id == Len(requests) + 1
           new_tasks == FanOut(request_id, a.stages, Len(tasks) + 1)
           sent == NotifyAssignees(SelectSeq(new_tasks, LAMBDA t : t.stage = 1))
       IN  /\ requests' = Append(requests, [id |-> request_id, contract_id |-> "c1", flow_id |-> a.flow_id, status |-> "pending", created_by |-> a.created_by])
           /\ tasks' = tasks \o new_tasks
           /\ events' = commit(backend, events, <<[a.ev EXCEPT !.resource_id = request_id]>>)
           /\ notifications' = notifications \o sent
           /\ resp' = AfterNotify(Response("create_approval_request", 201, "pending", request_id), sent)
    /\ sess' = [sess EXCEPT ![s] = Idle]
    /\ now' = now + 1
    /\ UNCHANGED <<delivery, flows, tamper, backend, links>>

\* consume_magic_link up to its commit: the link is loaded and checked, and
\* marked consumed in the session only
ConsumeBegin(s, token) ==
    /\ sess[s].pc = "idle"
    /\ LET g == ConsumeGuard(links, token, now)
       IN  IF g.code # 200
           THEN resp' = g /\ UNCHANGED sess
           ELSE /\ sess' = [sess EXCEPT ![s] =
                       [pc |-> "dirty", op |-> "consume_magic_link",
                        arg |-> [link_id |-> g.ref, consumed_at |-> now]]]
                /\ UNCHANGED resp
    /\ UNCHANGED <<delivery, flows, tamper, backend, now, events, requests, tasks, links, notifications>>

\* the commit of consume_magic_link (the flush writes consumed_at to the row
\* of the link, whatever the row holds by then) and the answer with the task
ConsumeCommit(s) ==
    /\ sess[s].pc = "dirty"
    /\ sess[s].op = "consume_magic_link"
    /\ WriteLockFree(s)
    /\ now < MaxTime
    /\ LET a == sess[s].arg
           task_id == links[a.link_id].task_id
       IN  /\ links' = [links EXCEPT ![a.link_id].consumed_at = a.consumed_at]
           /\ resp' = [Response("consume_magic_link", 200, "valid", task_id)
                          EXCEPT !.body = [task_id |-> task_id,
                                           request_id |-> tasks[task_id].request_id]]
    /\ sess' = [sess EXCEPT ![s] = Idle]
    /\ now' = now + 1
    /\ UNCHANGED <<delivery, flows, tamper, backend, events, requests, tasks, notifications>>

\* ---------------------------------------------------------------- tampering
NoTamper == [idx |-> 0, field |-> "none", before |-> <<>>]

HashedFields == {"id", "type", "actor_id", "workspace_id", "contract_id", "detail_json", "prev_hash", "created_at", "hash"}

\* the values an edit of the table can give a column of row i
TamperValues(evs, i, field) ==
    CASE field = "id" -> {Len(evs) + 1}
      [] field = "type" -> {"AUTH_LOGIN"}
      [] field \in {"actor_id", "workspace_id", "contract_id", "detail_json"} -> {NULL, "", "w1", "w2"}
      [] field \in {"prev_hash", "hash"} -> {NoHash, <<"forged">>} \cup {evs[j].hash : j \in 1..Len(evs)}
      [] field = "created_at" -> {[evs[i].created_at EXCEPT !.t = t] : t \in 0..MaxTime}

\* one column of one audit_events row is changed directly in the store
Tamper(i, field) ==
    /\ tamper = NoTamper
    /\ i \in 1..Len(events)
    /\ \E v \in TamperValues(events, i, field) :
          /\ v # events[i][field]
          /\ events' = [events EXCEPT ![i][field] = v]
    /\ tamper' = [idx |-> i, field |-> field, before |-> events]
    /\ resp' = Response("tamper", 0, field, i)
    /\ UNCHANGED <<delivery, flows, backend, now, requests, tasks, links, notifications, sess>>

\* ------------------------------------------------------------ specifications
Init ==
    /\ backend \in Backends
    /\ now = 0
    /\ events = <<>>
    /\ requests = <<>>
    /\ tasks = <<>>
    /\ links = <<>>
    /\ resp = Response("none", 0, "none", 0)
    /\ tamper = NoTamper
    /\ notifications = <<>>
    /\ sess = [s \in Sessions |-> Idle]
    /\ flows = <<>>
    /\ delivery = "up"

Creators == {"u0"}

\* the approval workflow with its audit events
Next ==
    \/ \E ce \in BOOLEAN, st \in StageChoices, cb \in Creators : create_approval_request(ce, NoFlow, st, cb)
    \/ \E t \in 1..(Len(tasks) + 1), a \in ApproveInputs : approve_task(t, a)
    \/ \E t \in 1..Len(tasks), a \in ActionInputs : reject_task(t, a)
    \/ \E t \in 1..Len(tasks), a \in ActionInputs : return_task(t, a)

Spec == Init /\ [][Next]_vars

\* the workflow of a request with stage 1 = [u1] and stage 2 = [u2]
TwoStageChoices ==
    { <<[stage |-> 1, assignees |-> <<User("u1")>>], [stage |-> 2, assignees |-> <<User("u2")>>]>> }

NextTwoStage ==
    \/ \E st \in TwoStageChoices, cb \in Creators : create_approval_request(TRUE, NoFlow, st, cb)
    \/ \E t \in 1..Len(tasks), a \in ApproveInputs : approve_task(t, a)
    \/ \E t \in 1..Len(tasks), a \in ActionInputs : reject_task(t, a)
    \/ \E t \in 1..Len(tasks), a \in ActionInputs : return_task(t, a)

SpecTwoStage == Init /\ [][NextTwoStage]_vars

\* the workflow of a request with one assignee per stage, with magic links
LinkStageChoices ==
    { <<[stage |-> 1, assignees |-> <<User("u1")>>], [stage |-> 2, assignees |-> <<External("x1")>>]>> }

LinkActionInputs == { [comment |-> "c", signature |-> "sig"] }

NextLinks ==
    \/ \E st \in LinkStageChoices, cb \in Creators : create_approval_request(TRUE, NoFlow, st, cb)
    \/ \E t \in 1..Len(tasks), a \in LinkActionInputs : approve_task(t, a)
    \/ \E t \in 1..Len(tasks), a \in LinkActionInputs : reject_task(t, a)
    \/ \E t \in 1..Len(tasks), a \in LinkActionInputs : return_task(t, a)
    \/ \E t \in 1..(Len(tasks) + 1), h \in ExpiresHours : create_magic_link(t, h)
    \/ \E tok \in 1..(Len(links) + 1) : consume_magic_link(tok)
    \/ \E l \in 1..(Len(links) + 1) : revoke_magic_link(l)
    \/ Tick

SpecLinks == Init /\ [][NextLinks]_vars

\* the audit ledger on its own: appends in any scope, and verification
NextAudit ==
    \/ \E ty \in EventTypes, a \in Actors, w \in Workspaces \cup {NULL} : AppendEvent(ty, a, w)
    \/ \E w \in Workspaces \cup {NULL}, l \in 1..MaxLimit : VerifyChain(w, l)

SpecAudit == Init /\ [][NextAudit]_vars

\* the audit ledger with one edit made behind the service's back
NextTamper ==
    \/ \E a \in Actors, w \in {NULL, "w1"} : AppendEvent("APPROVAL_REQUEST_CREATED", a, w)
    \/ \E i \in 1..MaxEvents, f \in HashedFields : Tamper(i, f)
    \/ \E w \in {NULL, "w1"}, l \in 1..MaxLimit : VerifyChain(w, l)

SpecTamper == Init /\ [][NextTamper]_vars

\* the walk of verify over a ledger in which one link or one hashed column of
\* one row was edited
WalkFields == {"detail_json", "prev_hash", "hash"}

NextWalk ==
    \/ \E w \in {NULL, "w1"} : AppendEvent("APPROVAL_REQUEST_CREATED", "u1", w)
    \/ \E i \in 1..MaxEvents, f \in WalkFields : Tamper(i, f)
    \/ \E w \in {NULL, "w1"}, l \in 1..MaxLimit : VerifyChain(w, l)

SpecWalk == Init /\ [][NextWalk]_vars

\* two approvals of one request, each in its own session
ConcStageChoices ==
    { <<[stage |-> 1, assignees |-> <<User("u1"), User("u2")>>]>>,
      <<[stage |-> 1, assignees |-> <<User("u1")>>], [stage |-> 2, assignees |-> <<User("u2")>>]>> }

ConcActionInputs == { [comment |-> NULL, signature |-> NULL] }

NextConcApprove ==
    \/ \E st \in ConcStageChoices, cb \in Creators : create_approval_request(TRUE, NoFlow, st, cb)
    \/ \E s \in Sessions, t \in 1..Len(tasks), a \in ConcActionInputs : ApproveBegin(s, t, a)
    \/ \E s \in Sessions : ApproveProgress(s)
    \/ \E s \in Sessions : ApproveCommit(s)
    \/ \E s \in Sessions : SessionFail(s)

SpecConcApprove == Init /\ [][NextConcApprove]_vars

\* appends to the ledger, each in its own session, and verification
NextConcAppend ==
    \/ \E s \in Sessions, a \in Actors, w \in {NULL, "w1"} : AppendBegin(s, a, w)
    \/ \E s \in Sessions : AppendCommit(s)
    \/ \E s \in Sessions : SessionFail(s)
    \/ \E w \in {NULL, "w1"} : VerifyChain(w, DefaultLimit)

SpecConcAppend == Init /\ [][NextConcAppend]_vars

\* issues of magic links, each in its own session
NextConcIssue ==
    \/ \E st \in LinkStageChoices, cb \in Creators : create_approval_request(TRUE, NoFlow, st, cb)
    \/ \E s \in Sessions, t \in 1..(Len(tasks) + 1), h \in ExpiresHours : IssueBegin(s, t, h)
    \/ \E s \in Sessions : IssueCommit(s)
    \/ \E s \in Sessions : SessionFail(s)
    \/ Tick

SpecConcIssue == Init /\ [][NextConcIssue]_vars

\* the workflow of a two-stage request while the mail server may be down
NextNotify ==
    \/ \E st \in TwoStageChoices, cb \in Creators : create_approval_request(TRUE, NoFlow, st, cb)
    \/ \E t \in 1..Len(tasks), a \in LinkActionInputs : approve_task(t, a)
    \/ \E t \in 1..Len(tasks), a \in LinkActionInputs : reject_task(t, a)
    \/ \E t \in 1..Len(tasks), a \in LinkActionInputs : return_task(t, a)
    \/ DeliveryChange

SpecNotify == Init /\ [][NextNotify]_vars

\* request.stages of a request that may also name a flow
FlowInlineChoices ==
    { <<>>, <<[stage |-> 1, assignees |-> <<User("u1")>>]>> }

\* the flow templates, the requests created from them or from inline stages,
\* and the approval of their first stage
NextFlows ==
    \/ \E we \in BOOLEAN, r \in {i \in FlowInputs : i.stages # <<>>} : create_approval_flow(we, r)
    \/ \E f \in 1..(Len(flows) + 1), r \in FlowInputs : update_approval_flow(f, r)
    \/ \E f \in 1..(Len(flows) + 1) : delete_approval_flow(f)
    \/ \E ce \in BOOLEAN, f \in 0..(Len(flows) + 1), st \in FlowInlineChoices, cb \in Creators : create_approval_request(ce, f, st, cb)
    \/ \E t \in {i \in 1..Len(tasks) : tasks[i].stage = 1}, a \in LinkActionInputs : approve_task(t, a)

SpecFlows == Init /\ [][NextFlows]_vars


\* requests created from a flow or from inline stages, each call in its own
\* session, which may fail before it commits
NextCreate ==
    \/ \E r \in FlowInputs : create_approval_flow(TRUE, r)
    \/ \E s \in Sessions, ce \in BOOLEAN, f \in 0..(Len(flows) + 1), st \in StageChoices, cb \in Creators : CreateBegin(s, ce, f, st, cb)
    \/ \E s \in Sessions : CreateCommit(s)
    \/ \E s \in Sessions : SessionFail(s)

SpecCreate == Init /\ [][NextCreate]_vars

\* the ledger with every operation that can reach it: the appends and the
\* verification of the audit chain, the workflow handlers, the magic links
NextLedger ==
    \/ \E a \in Actors, w \in {NULL, "w1"} : AppendEvent("APPROVAL_REQUEST_CREATED", a, w)
    \/ \E w \in {NULL, "w1"} : VerifyChain(w, DefaultLimit)
    \/ \E st \in LinkStageChoices, cb \in Creators : create_approval_request(TRUE, NoFlow, st, cb)
    \/ \E t \in 1..Len(tasks), a \in LinkActionInputs : approve_task(t, a)
    \/ \E t \in 1..Len(tasks), a \in LinkActionInputs : reject_task(t, a)
    \/ \E t \in 1..Len(tasks), a \in LinkActionInputs : return_task(t, a)
    \/ \E t \in 1..Len(tasks), h \in ExpiresHours : create_magic_link(t, h)
    \/ \E tok \in 1..(Len(links) + 1) : consume_magic_link(tok)
    \/ \E l \in 1..(Len(links) + 1) : revoke_magic_link(l)

SpecLedger == Init /\ [][NextLedger]_vars

\* an approval and a rejection of the tasks of one request, each in its own
\* session
SameTaskStageChoices ==
    { <<[stage |-> 1, assignees |-> <<User("u1")>>]>>,
      <<[stage |-> 1, assignees |-> <<User("u1")>>], [stage |-> 2, assignees |-> <<User("u2")>>]>> }

NextConcAct ==
    \/ \E st \in SameTaskStageChoices, cb \in Creators : create_approval_request(TRUE, NoFlow, st, cb)
    \/ \E s \in Sessions, t \in 1..Len(tasks), a \in ConcActionInputs : ApproveBegin(s, t, a)
    \/ \E s \in Sessions : ApproveProgress(s)
    \/ \E s \in Sessions : ApproveCommit(s)
    \/ \E s \in Sessions, t \in 1..Len(tasks), a \in LinkActionInputs : RejectBegin(s, t, a)
    \/ \E s \in Sessions : RejectProgress(s)
    \/ \E s \in Sessions : RejectCommit(s)
    \/ \E s \in Sessions : SessionFail(s)

SpecConcAct == Init /\ [][NextConcAct]_vars

\* consumptions of magic links, each in its own session
NextConcConsume ==
    \/ \E st \in LinkStageChoices, cb \in Creators : create_approval_request(TRUE, NoFlow, st, cb)
    \/ \E t \in 1..Len(tasks), h \in ExpiresHours : create_magic_link(t, h)
    \/ \E s \in Sessions, tok \in 1..(Len(links) + 1) : ConsumeBegin(s, tok)
    \/ \E s \in Sessions : ConsumeCommit(s)
    \/ \E s \in Sessions : SessionFail(s)
    \/ Tick

SpecConcConsume == Init /\ [][NextConcConsume]_vars

\* the workflow of a request whose second stage has two assignees, one call
\* at a time
AdvanceStageChoices ==
    { <<[stage |-> 1, assignees |-> <<User("u1")>>], [stage |-> 2, assignees |-> <<User("u2"), User("u3")>>]>> }

NextAdvance ==
    \/ \E st \in AdvanceStageChoices, cb \in Creators : create_approval_request(TRUE, NoFlow, st, cb)
    \/ \E t \in 1..Len(tasks), a \in ApproveInputs : approve_task(t, a)
    \/ \E t \in 1..Len(tasks), a \in LinkActionInputs : reject_task(t, a)
    \/ \E t \in 1..Len(tasks), a \in LinkActionInputs : return_task(t, a)

SpecAdvance == Init /\ [][NextAdvance]_vars

\* the workflow of requests whose stages mix the kinds of assignee, name a
\* user that has no account, or leave a stage number out
MixedStageChoices ==
    { <<[stage |-> 1, assignees |-> <<User("u1"), External("x1")>>], [stage |-> 2, assignees |-> <<User("u2")>>]>>,
      <<[stage |-> 1, assignees |-> <<Role("r1"), User("u9")>>], [stage |-> 2, assignees |-> <<User("u3")>>]>>,
      <<[stage |-> 1, assignees |-> <<User("u1")>>], [stage |-> 2, assignees |-> <<External("x1"), User("u2")>>]>>,
      <<[stage |-> 1, assignees |-> <<User("u1")>>], [stage |-> 3, assignees |-> <<User("u2")>>]>> }

NextStageNotify ==
    \/ \E st \in MixedStageChoices, cb \in Creators : create_approval_request(TRUE, NoFlow, st, cb)
    \/ \E t \in 1..Len(tasks), a \in LinkActionInputs : approve_task(t, a)
    \/ \E t \in 1..Len(tasks), a \in LinkActionInputs : reject_task(t, a)

SpecStageNotify == Init /\ [][NextStageNotify]_vars

\* ------------------------------------------------------------------- claims
Scopes == Workspaces \cup {NULL}

\* every event of the ledger was appended with the scope argument s
SameScope(evs, s) == \A i \in 1..Len(evs) : evs[i].workspace_id = s

\* C1: after N appends that all used the same scope on an empty ledger, verify
\* on that scope (with a limit of at least N) returns valid=true and
\* checked_count=N.
C1_ChainIntegrity ==
    (/\ resp.op = "verify"
     /\ SameScope(events, resp.detail)
     /\ resp.ref >= Len(events))
    => (resp.body.valid /\ resp.body.checked_count = Len(events))

\* the index of the first event after row i among the rows of a scope, in the
\* order of created_at; 0 when row i is the newest
NextInScope(evs, s, i) ==
    LET later == {j \in ScopeIdx(evs, s) : evs[j].created_at.t > evs[i].created_at.t}
    IN  IF later = {} THEN 0
        ELSE CHOOSE j \in later : \A k \in later : evs[j].created_at.t <= evs[k].created_at.t

\* C2: on a chain that verify found valid, changing one hashed field or the
\* stored hash of one event makes the re-run of verify (same scope, a limit
\* that covers the chain) return valid=false, naming that event or the first
\* event after it.
C2_TamperDetection ==
    (/\ tamper.idx # 0
     /\ resp.op = "verify"
     /\ Len(events) = Len(tamper.before)
     /\ resp.ref >= Len(events)
     /\ tamper.idx \in ScopeIdx(tamper.before, resp.detail)
     /\ \A r \in verify_chain(tamper.before, resp.detail, resp.ref) : r.valid)
    => LET nxt == NextInScope(tamper.before, resp.detail, tamper.idx)
       IN  /\ ~resp.body.valid
           /\ resp.body.first_invalid_id \in
                 {events[tamper.idx].id, tamper.before[tamper.idx].id}
                 \cup (IF nxt = 0 THEN {} ELSE {tamper.before[nxt].id})

\* C3: within each scope, oldest to newest, the first event has a null
\* prev_hash and every later event's prev_hash is the hash of the event just
\* before it.
C3_MonotonicLinkage ==
    \A s \in Scopes : \A ord \in OrderAsc(events, ScopeIdx(events, s)) :
        \A i \in 1..Len(ord) :
            ord[i].prev_hash = (IF i = 1 THEN NoHash ELSE ord[i - 1].hash)

\* C4: a request with tasks is approved if and only if every one of its tasks
\* is approved, whatever the order of the actions.
C4_AllApprovedClosure ==
    \A r \in 1..Len(requests) :
        TasksOf(tasks, r) # {} =>
            (requests[r].status = "approved"
                <=> \A i \in TasksOf(tasks, r) : tasks[i].status = "approved")

\* a request of three tasks in two stages, all approved, the stage-2 task
\* before a stage-1 task, and the request approved
C4_Witness ==
    \E r \in 1..Len(requests) :
        /\ requests[r].status = "approved"
        /\ Cardinality(TasksOf(tasks, r)) = 3
        /\ \A i \in TasksOf(tasks, r) : tasks[i].status = "approved"
        /\ \E i, j \in TasksOf(tasks, r) :
              tasks[i].stage = 2 /\ tasks[j].stage = 1 /\ tasks[i].acted_at < tasks[j].acted_at

\* C5: once a task of a request is rejected, the request is rejected and
\* stays so whatever happens to its other tasks.
C5_RejectedShortCircuit ==
    \A r \in 1..Len(requests) :
        (\E i \in TasksOf(tasks, r) : tasks[i].status = "rejected")
            => requests[r].status = "rejected"

\* the progression rules of the specification applied to a request's tasks
deriveStatus(tks, r) ==
    LET ts == TasksOf(tks, r)
    IN  IF \A i \in ts : tks[i].status = "approved" THEN "approved"
        ELSE IF \E i \in ts : tks[i].status = "rejected" THEN "rejected"
        ELSE IF \E i \in ts : tks[i].status = "returned" THEN "returned"
        ELSE "pending"

\* C6: after every completed task action the stored status of the request is
\* the status the progression rules derive from all its tasks.
C6_StatusIsDerived ==
    \A r \in 1..Len(requests) :
        (\E i \in TasksOf(tasks, r) : tasks[i].status # "pending")
            => requests[r].status = deriveStatus(tasks, r)

\* C7: a request's status leaves pending only for approved, rejected or
\* returned, and once it is one of these it never changes again.
C7_TerminalStatus ==
    [][\A r \in 1..Len(requests) :
          /\ requests'[r].status \in {"pending", "approved", "rejected", "returned"}
          /\ requests[r].status # "pending" => requests'[r].status = requests[r].status]_vars

\* C8: a task action on a task that is not pending fails with the
\* already-processed error and changes neither the audit events, the tasks
\* nor the requests.
C8_DoubleActionRejected ==
    [][\A t \in 1..Len(tasks), a \in ActionInputs :
          (/\ tasks[t].status # "pending"
           /\ resp'.op \in {"approve_task", "reject_task", "return_task"}
           /\ approve_task(t, a) \/ reject_task(t, a) \/ return_task(t, a))
          => (/\ resp'.code = 400
              /\ resp'.detail = "already processed"
              /\ events' = events
              /\ tasks' = tasks
              /\ requests' = requests)]_vars

\* a second action on a task answered with the already-processed error
C8_Witness ==
    /\ resp.op \in {"approve_task", "reject_task", "return_task"}
    /\ resp.code = 400
    /\ resp.detail = "already processed"
    /\ \E t \in 1..Len(tasks) : tasks[t].status # "pending"

\* C9: once a task has left pending, its status, action time, comment and
\* signature never change again.
C9_TaskImmutable ==
    [][\A t \in 1..Len(tasks) :
          tasks[t].status # "pending" =>
              /\ tasks'[t].status = tasks[t].status
              /\ tasks'[t].acted_at = tasks[t].acted_at
              /\ tasks'[t].comment = tasks[t].comment
              /\ tasks'[t].signature_hash = tasks[t].signature_hash]_vars

\* a decided task on which a magic link was issued and consumed afterwards,
\* and a later action on it was refused
C9_Witness ==
    /\ resp.detail = "already processed"
    /\ \E t \in 1..Len(tasks), l \in 1..Len(links) :
          /\ tasks[t].status # "pending"
          /\ links[l].task_id = t
          /\ links[l].consumed_at > tasks[t].acted_at

\* the audit event type of a task outcome
OutcomeEvent(status) ==
    CASE status = "approved" -> "APPROVAL_APPROVED"
      [] status = "rejected" -> "APPROVAL_REJECTED"
      [] status = "returned" -> "APPROVAL_RETURNED"
      [] OTHER -> "none"

\* C10: every task that was acted on has exactly one persisted audit event of
\* the matching kind that references it, with the assignee as actor when the
\* assignee is a user and no actor otherwise.
C10_OneAuditEventPerAction ==
    \A t \in 1..Len(tasks) :
        tasks[t].status # "pending" =>
            LET es == {i \in 1..Len(events) :
                          /\ events[i].resource_type = "approval_task"
                          /\ events[i].resource_id = t
                          /\ events[i].type = OutcomeEvent(tasks[t].status)}
            IN  /\ Cardinality(es) = 1
                /\ \A i \in es : events[i].actor_id = ActorOf(tasks[t])

\* the outcome event of a task that was acted on is among the stored events
HasOutcomeEvent(evs, tks, t) ==
    \E i \in 1..Len(evs) :
        /\ evs[i].resource_type = "approval_task"
        /\ evs[i].resource_id = t
        /\ evs[i].type = OutcomeEvent(tks[t].status)

\* C11: in every committed state, a task that is no longer pending has its
\* outcome audit event stored and the status of its request reflects it: the
\* task update, the request update and the audit append are one transaction.
C11_AtomicTaskAction ==
    \A t \in 1..Len(tasks) :
        tasks[t].status # "pending" =>
            /\ HasOutcomeEvent(events, tasks, t)
            /\ tasks[t].status \in {"rejected", "returned"}
                  => requests[tasks[t].request_id].status # "pending"
            /\ (\A i \in TasksOf(tasks, tasks[t].request_id) : tasks[i].status = "approved")
                  => requests[tasks[t].request_id].status = "approved"

\* C12: for a request with stage 1 = [userA] and stage 2 = [userB]: once
\* userA's task is approved the request is still pending and userB has been
\* notified; once userB's task is approved after it, the request is approved,
\* the creator has been notified of the final approval, and verify over the
\* whole audit trail is valid with checked_count >= 3.
C12_TwoStageApproval ==
    \A r \in 1..Len(requests) : \A a, b \in TasksOf(tasks, r) :
        (/\ TasksOf(tasks, r) = {a, b}
         /\ tasks[a].stage = 1 /\ tasks[a].assignee_type = "user"
         /\ tasks[b].stage = 2 /\ tasks[b].assignee_type = "user"
         /\ tasks[a].status = "approved")
        => /\ tasks[b].status = "pending" =>
               /\ requests[r].status = "pending"
               /\ \E n \in 1..Len(notifications) :
                     /\ notifications[n].recipient = tasks[b].assignee_id
                     /\ notifications[n].subject = "approval_request"
           /\ (tasks[b].status = "approved" /\ tasks[a].acted_at < tasks[b].acted_at) =>
               /\ requests[r].status = "approved"
               /\ \E n \in 1..Len(notifications) :
                     /\ notifications[n].recipient = requests[r].created_by
                     /\ notifications[n].subject = "final_approved"
               /\ \A res \in verify_chain(events, NULL, DefaultLimit) :
                     res.valid /\ res.checked_count >= 3

\* C13: on a pending task, reject and return without a comment (missing or
\* empty) fail with the comment-required validation error and change neither
\* the tasks, the requests nor the audit events; approve without a comment
\* succeeds.
C13_CommentRequired ==
    [][\A t \in 1..Len(tasks), a \in ActionInputs :
          (tasks[t].status = "pending" /\ ~Truthy(a.comment))
          => /\ (reject_task(t, a) \/ return_task(t, a))
                  => (/\ resp'.code = 400
                      /\ resp'.detail = "comment required"
                      /\ tasks' = tasks
                      /\ requests' = requests
                      /\ events' = events)
             /\ approve_task(t, a)
                  => (resp'.code = 200 /\ tasks'[t].status = "approved")]_vars

\* a task approved without a comment, and a reject or return without a comment
\* refused
C13_Witness ==
    /\ resp.op \in {"reject_task", "return_task"}
    /\ resp.detail = "comment required"
    /\ \E t \in 1..Len(tasks) :
          tasks[t].status = "approved" /\ tasks[t].comment = NULL

\* a link is live: not revoked, not consumed and not past its expiry
Live(lk, t) ==
    lk.revoked_at = NoTime /\ lk.consumed_at = NoTime /\ ~(t > lk.expires_at)

\* the live links of a task
LiveLinks(lks, task_id, t) ==
    {i \in 1..Len(lks) : lks[i].task_id = task_id /\ Live(lks[i], t)}

\* C14: with issue, consume and revoke executed one at a time, every task has
\* at most one live link, and issuing a link for a task revokes every prior
\* live link of that task.
C14_OneLiveLinkPerTask ==
    [][/\ \A t \in 1..Len(tasks') : Cardinality(LiveLinks(links', t, now')) <= 1
       /\ (resp'.op = "create_magic_link" /\ resp'.code = 200 /\ Len(links') = Len(links) + 1)
            => \A i \in LiveLinks(links, links'[Len(links')].task_id, now) :
                   links'[i].revoked_at # NoTime]_vars

\* a task with a link that was revoked, while live, by the issue of the link
\* that is live now
C14_Witness ==
    \E i, j \in 1..Len(links) :
        /\ i < j
        /\ links[i].task_id = links[j].task_id
        /\ links[i].consumed_at = NoTime
        /\ links[i].revoked_at # NoTime
        /\ \E h \in ExpiresHours : links[j].expires_at = links[i].revoked_at + h
        /\ ~(links[i].revoked_at > links[i].expires_at)
        /\ Live(links[j], now)

C17_IdempotentRevoke ==
    [][\A l \in 1..Len(links) :
          (links[l].revoked_at # NoTime /\ revoke_magic_link(l))
          => (resp'.code = 200 /\ links' = links)]_vars

\* every handler that was started has completed
AllIdle == \A s \in Sessions : sess[s] = Idle

\* C18: whatever the interleaving of two concurrent appends to one scope, no
\* two events of the scope carry the same prev_hash, and once both appends
\* have completed verify on that scope returns valid=true.
C18_NoForkUnderConcurrency ==
    \A w \in Scopes :
        SameScope(events, w) =>
            /\ \A i, j \in 1..Len(events) :
                  i # j => events[i].prev_hash # events[j].prev_hash
            /\ AllIdle => \A res \in verify_chain(events, w, DefaultLimit) : res.valid

\* C19: whatever the interleaving of two concurrent approvals of different
\* tasks of one request, once both have completed and every task of the
\* request is approved, the request is approved.
C19_ConcurrentApprovalsClose ==
    \A r \in 1..Len(requests) :
        (/\ AllIdle
         /\ TasksOf(tasks, r) # {}
         /\ \A i \in TasksOf(tasks, r) : tasks[i].status = "approved")
        => requests[r].status = "approved"

\* C20: whatever the interleaving of two concurrent issues of a magic link for
\* one task, once both have completed the task has at most one live link.
C20_ConcurrentIssueOneLive ==
    AllIdle => \A t \in 1..Len(tasks) : Cardinality(LiveLinks(links, t, now)) <= 1

\* the Notification rows a step added contain a failed delivery
FailedDelivery ==
    /\ Len(notifications') > Len(notifications)
    /\ \E n \in (Len(notifications) + 1)..Len(notifications') : notifications'[n].status = "failed"

\* C21: a failed notification delivery during create_request or act_on_task
\* never makes the call fail and undoes nothing of it: the call answers with
\* success, every audit event persisted before is still there, a create has
\* persisted its request, its tasks and its APPROVAL_REQUEST_CREATED event,
\* and a task action has persisted the new status of the task and the status
\* of the request that follows from it.  (Whether a task action persists an
\* audit event at all is the subject of C10; no delivery failure changes it.)
C21_NotificationFailureHarmless ==
    [][FailedDelivery =>
          /\ resp'.code \in {200, 201}
          /\ Len(events') >= Len(events)
          /\ SubSeq(events', 1, Len(events)) = events
          /\ resp'.op = "create_approval_request" =>
                /\ Len(requests') = Len(requests) + 1
                /\ requests'[resp'.ref].status = "pending"
                /\ TasksOf(tasks', resp'.ref) # {}
                /\ TasksOf(tasks, resp'.ref) = {}
                /\ Len(events') = Len(events) + 1
                /\ events'[Len(events')].type = "APPROVAL_REQUEST_CREATED"
                /\ events'[Len(events')].resource_id = resp'.ref
          /\ resp'.op \in {"approve_task", "reject_task", "return_task"} =>
                /\ tasks[resp'.ref].status = "pending"
                /\ tasks'[resp'.ref].status =
                      (CASE resp'.op = "approve_task" -> "approved"
                         [] resp'.op = "reject_task" -> "rejected"
                         [] resp'.op = "return_task" -> "returned")
                /\ requests'[tasks[resp'.ref].request_id].status =
                      (CASE resp'.op = "approve_task" ->
                                check_and_progress_request(requests, tasks', tasks[resp'.ref].request_id)
                         [] resp'.op = "reject_task" -> "rejected"
                         [] resp'.op = "return_task" -> "returned")]_vars

\* the final approval went through although its notification was not delivered
C21_Witness ==
    /\ resp.op = "approve_task"
    /\ resp.code = 200
    /\ \E r \in 1..Len(requests) : requests[r].status = "approved"
    /\ \E n \in 1..Len(notifications) :
          /\ notifications[n].subject = "final_approved"
          /\ notifications[n].status = "failed"

\* C22: create_request succeeds only when exactly one of a flow reference and
\* inline stages is supplied; with neither or both (the contract and the flow
\* referred to exist) it answers with the validation error 400 and persists
\* no request, no task and no audit event
C22_ExactlyOneStageSource ==
    [][\A f \in 0..Len(flows), st \in FlowInlineChoices, cb \in Creators :
          (create_approval_request(TRUE, f, st, cb) /\ ((f # NoFlow) <=> (st # <<>>))) =>
              /\ resp'.code = 400
              /\ UNCHANGED <<requests, tasks, events>>]_vars

\* the (stage, assignee) pairs of a list of stage definitions, in order
RECURSIVE Pairs(_)
Pairs(stages) ==
    IF stages = <<>> THEN <<>>
    ELSE [k \in 1..Len(Head(stages).assignees) |->
             [stage |-> Head(stages).stage, assignee |-> Head(stages).assignees[k]]]
         \o Pairs(Tail(stages))

\* C23: a successful create_request persists together one request in status
\* pending, exactly one pending task per (stage, assignee) pair of the stage
\* definitions it resolved (those of the flow, or the inline ones), and one
\* APPROVAL_REQUEST_CREATED audit event that refers to the request; a call
\* that fails, before or after it has flushed, persists none of them
C23_CreateAllOrNothing ==
    [][IF resp'.op = "create_approval_request" /\ resp'.code = 201 /\ resp' # resp
       THEN \E s \in Sessions :
              /\ sess[s].op = "create_approval_request"
              /\ sess'[s] = Idle
              /\ LET a == sess[s].arg
                     r == resp'.ref
                     pairs == Pairs(IF a.flow_id # NoFlow
                                    THEN json_loads(flows[FindFlow(flows, a.flow_id)].definition_json)
                                    ELSE a.inline_stages)
                 IN  /\ Len(requests') = Len(requests) + 1
                     /\ r = Len(requests')
                     /\ requests'[r].status = "pending"
                     /\ SubSeq(tasks', 1, Len(tasks)) = tasks
                     /\ Len(tasks') = Len(tasks) + Len(pairs)
                     /\ \A k \in 1..Len(pairs) :
                           LET t == tasks'[Len(tasks) + k]
                           IN  /\ t.request_id = r
                               /\ t.stage = pairs[k].stage
                               /\ t.assignee_type = pairs[k].assignee.type
                               /\ t.assignee_id = pairs[k].assignee.id
                               /\ t.status = "pending"
                     /\ SubSeq(events', 1, Len(events)) = events
                     /\ Len(events') = Len(events) + 1
                     /\ events'[Len(events')].type = "APPROVAL_REQUEST_CREATED"
                     /\ events'[Len(events')].resource_id = r
       ELSE UNCHANGED <<requests, tasks, events>>]_vars

\* a request was created from inline stages with two assignees in stage 1,
\* and one in stage 2
C23_Witness ==
    /\ resp.op = "create_approval_request"
    /\ resp.code = 201
    /\ Len(requests) = 1
    /\ Len(tasks) = 3
    /\ tasks[1].stage = 1
    /\ tasks[2].stage = 1
    /\ Len(events) = 1
    /\ events[1].resource_id = 1

\* C24: no operation of the workflow engine, of the magic-link issuer or of
\* the audit chain changes or removes a persisted audit event: a step leaves
\* the events as they are or adds exactly one behind them
C24_AppendOnly ==
    [][/\ Len(events') \in {Len(events), Len(events) + 1}
       /\ SubSeq(events', 1, Len(events)) = events]_vars

\* two events are persisted, a task was acted on and a link was issued
C24_Witness ==
    /\ Len(events) >= 2
    /\ Len(links) >= 1
    /\ \E t \in 1..Len(tasks) : tasks[t].status # "pending"

\* C25: append and verify use one chain scope: whatever mix of appends with
\* workspace ids and without one has been made, verify (with a limit that
\* covers the ledger) returns valid=true for every scope argument.  The store
\* is the one that returns created_at as it was written, so that nothing but
\* the scope decides the result.
C25_UniformScope ==
    backend = "sqlite" =>
        \A s \in Scopes : \A r \in verify_chain(events, s, DefaultLimit) : r.valid

\* C26: deactivate keeps the row of the flow and sets it inactive, leaving
\* every other flow as it is; neither deactivate nor update changes a request
\* or a task; a request created from the flow afterwards gets its tasks from
\* the stage definitions the flow holds at that time
C26_FlowSoftDelete ==
    [][/\ \A f \in 1..(Len(flows) + 1) :
             delete_approval_flow(f) =>
                 /\ UNCHANGED <<requests, tasks>>
                 /\ Len(flows') = Len(flows)
                 /\ \A i \in 1..Len(flows) :
                       flows'[i] = IF flows[i].id = f /\ resp'.code = 200
                                   THEN [flows[i] EXCEPT !.is_active = FALSE]
                                   ELSE flows[i]
       /\ \A f \in 1..(Len(flows) + 1), r \in FlowInputs :
             update_approval_flow(f, r) =>
                 /\ UNCHANGED <<requests, tasks>>
                 /\ Len(flows') = Len(flows)
       /\ \A f \in 1..Len(flows), cb \in Creators :
             (create_approval_request(TRUE, f, <<>>, cb) /\ resp'.code = 201) =>
                 LET pairs == Pairs(json_loads(flows[FindFlow(flows, f)].definition_json))
                 IN  /\ SubSeq(tasks', 1, Len(tasks)) = tasks
                     /\ Len(tasks') = Len(tasks) + Len(pairs)
                     /\ \A k \in 1..Len(pairs) :
                           /\ tasks'[Len(tasks) + k].stage = pairs[k].stage
                           /\ tasks'[Len(tasks) + k].assignee_id = pairs[k].assignee.id]_vars

\* a flow was deactivated after a request had been created from it, and the
\* request still has its tasks
C26_Witness ==
    /\ resp.op = "delete_approval_flow"
    /\ resp.code = 200
    /\ \E r \in 1..Len(requests) :
          /\ requests[r].flow_id # NoFlow
          /\ FindFlow(flows, requests[r].flow_id) # 0
          /\ ~flows[FindFlow(flows, requests[r].flow_id)].is_active
          /\ TasksOf(tasks, r) # {}

\* C27: of two concurrent act_on_task calls on one pending task at most one
\* succeeds: a call that answers with success commits its change to a task
\* that is still pending in the store, so that the status the task ends with
\* is the one this call set and no second call can succeed after it
C27_OneActionPerTask ==
    [][\A s \in Sessions :
          (/\ sess[s].op \in {"approve_task", "reject_task"}
           /\ sess[s].pc = "flushed"
           /\ sess'[s] = Idle
           /\ resp'.code = 200) =>
              tasks[sess[s].arg.task_id].status = "pending"]_vars

\* C28: of two concurrent consume calls that present the token of one valid
\* link at most one succeeds: a call that answers with success marks a link
\* consumed that no call has marked before it
C28_OneConsumePerLink ==
    [][\A s \in Sessions :
          (/\ sess[s].op = "consume_magic_link"
           /\ sess'[s] = Idle
           /\ resp'.op = "consume_magic_link"
           /\ resp'.code = 200) =>
              links[sess[s].arg.link_id].consumed_at = NoTime]_vars

\* the lowest stage of request r that has a task that is not approved; 0 when
\* every task is approved
LowestIncomplete(tks, r) ==
    LET open == {tks[i].stage : i \in {j \in TasksOf(tks, r) : tks[j].status # "approved"}}
    IN  IF open = {} THEN 0 ELSE CHOOSE s \in open : \A u \in open : s <= u

\* C29: with one act_on_task call at a time, the assignees of a stage s > 1
\* get the stage-advancement notification at most once per request: a task
\* action sends it only in the step that makes s the lowest stage not yet
\* fully approved, which happens once, and in no later step
C29_AdvanceNotifiedOnce ==
    [][\A t \in 1..Len(tasks) :
          (/\ Len(tasks') = Len(tasks)
           /\ tasks'[t] # tasks[t]
           /\ \E n \in (Len(notifications) + 1)..Len(notifications') :
                 notifications'[n].subject = "approval_request") =>
              LowestIncomplete(tasks', tasks[t].request_id) # LowestIncomplete(tasks, tasks[t].request_id)]_vars

\* C30: a task of stage s leaves pending only when every task of every lower
\* stage of the same request is already approved
C30_StageGating ==
    [][\A t \in 1..Len(tasks) :
          (/\ Len(tasks') = Len(tasks)
           /\ tasks[t].status = "pending"
           /\ tasks'[t].status # "pending") =>
              \A i \in TasksOf(tasks, tasks[t].request_id) :
                  tasks[i].stage < tasks[t].stage => tasks[i].status = "approved"]_vars

\* C31: once a consume of a token has succeeded, no later consume of that
\* token succeeds, whatever came in between: no step takes the consumption
\* mark or the token from a link that has been consumed, and a consume that
\* presents the token of a consumed link is refused
C31_ConsumedForever ==
    [][/\ \A i \in 1..Len(links) :
             links[i].consumed_at # NoTime =>
                 /\ Len(links') >= Len(links)
                 /\ links'[i].consumed_at = links[i].consumed_at
                 /\ links'[i].token_hash = links[i].token_hash
       /\ \A tok \in 1..Len(links) :
             (links[FindLink(links, tok)].consumed_at # NoTime /\ consume_magic_link(tok)) =>
                 resp'.code = 400]_vars

\* a consumed link was presented again after a new link had been issued for
\* its task, and was refused
C31_Witness ==
    /\ resp.op = "consume_magic_link"
    /\ resp.code = 400
    /\ \E i \in 1..Len(links), j \in 1..Len(links) :
          /\ i < j
          /\ links[i].consumed_at # NoTime
          /\ links[j].task_id = links[i].task_id
          /\ links[j].consumed_at = NoTime
          /\ links[j].revoked_at = NoTime

\* the Notification rows a step added that ask for an approval
NewApprovalRequests ==
    SelectSeq(SubSeq(notifications', Len(notifications) + 1, Len(notifications')),
              LAMBDA n : n.subject = "approval_request")

\* the tasks of request r in stage s whose assignee is a user with an account
UserTasks(tks, r, s) ==
    {i \in TasksOf(tks, r) : /\ tks[i].stage = s
                            /\ tks[i].assignee_type = "user"
                            /\ tks[i].assignee_id \in RegisteredUsers}

Examined(evs, s, l) ==
    {SubSeq(ord, 1, IF Len(ord) < l THEN Len(ord) ELSE l) :
        ord \in OrderAsc(evs, {i \in 1..Len(evs) : s = NULL \/ evs[i].workspace_id = s})}

\* row k of rows fails one of the two checks: its stored prev_hash is not the
\* hash of the row before it (null for the first), or the hash recomputed from
\* its stored columns is not its stored hash
Mismatch(rows, k) ==
    \/ rows[k].prev_hash # (IF k = 1 THEN NoHash ELSE rows[k - 1].hash)
    \/ rows[k].hash # compute_event_hash(rows[k].id, rows[k].type, rows[k].actor_id, rows[k].workspace_id, rows[k].contract_id, rows[k].detail_json, rows[k].prev_hash, isoformat(rows[k].created_at))

\* C34: verify walks the events of the scope oldest to newest and stops at the
\* first event that fails the prev_hash check or the hash check: it returns
\* valid=false, first_invalid_id equal to that event's id and checked_count
\* equal to the number of events that passed before it; when no examined event
\* fails it returns valid=true.  (resp is the response of the last call, and
\* every call that changes the ledger sets it.)
C34_StopsAtFirstMismatch ==
    resp.op = "verify" =>
        \E rows \in Examined(events, resp.detail, resp.ref) :
            LET Bad == {k \in 1..Len(rows) : Mismatch(rows, k)}
            IN  IF Bad = {} THEN resp.body.valid
                ELSE LET k == CHOOSE x \in Bad : \A y \in Bad : x <= y
                     IN  /\ ~resp.body.valid
                         /\ resp.body.first_invalid_id = rows[k].id
                         /\ resp.body.checked_count = k - 1

\* a verify stopped at the third event it examined: two events passed, the
\* third was edited in the store
C34_Witness ==
    /\ resp.op = "verify"
    /\ tamper.idx # 0
    /\ ~resp.body.valid
    /\ resp.body.checked_count = 2
    /\ resp.body.first_invalid_id = events[tamper.idx].id

\* C35: verify(scope, limit) examines only the limit oldest events of the
\* scope: checked_count never exceeds limit, and the result is one that verify
\* returns on the ledger cut down to the first limit events of the scope, so
\* that no later event has a part in it.
C35_LimitBoundsVerify ==
    resp.op = "verify" =>
        /\ resp.body.checked_count <= resp.ref
        /\ \E rows \in Examined(events, resp.detail, resp.ref) :
              resp.body \in verify_chain(rows, resp.detail, Len(rows) + 1)

\* a verify whose scope holds more events than its limit, and which passed
\* over exactly limit events
C35_Witness ==
    /\ resp.op = "verify"
    /\ Cardinality({i \in 1..Len(events) : resp.detail = NULL \/ events[i].workspace_id = resp.detail}) > resp.ref
    /\ resp.body.valid
    /\ resp.body.checked_count = resp.ref

\* C36: verify on a scope that contains no event returns valid=true with
\* checked_count=0 and no first_invalid_id.
C36_EmptyScopeValid ==
    (/\ resp.op = "verify"
     /\ \A i \in 1..Len(events) : resp.detail # NULL /\ events[i].workspace_id # resp.detail)
    => /\ resp.body.valid
       /\ resp.body.checked_count = 0
       /\ resp.body.first_invalid_id = NoId

\* a verify of a workspace that has no event, on a ledger that holds events of
\* another scope
C36_Witness ==
    /\ resp.op = "verify"
    /\ resp.detail \in Workspaces
    /\ Len(events) >= 2
    /\ \A i \in 1..Len(events) : events[i].workspace_id # resp.detail
    /\ resp.body.valid
    /\ resp.body.checked_count = 0

\* C37: for every persisted event, the timestamp string verify feeds into the
\* hash (isoformat of the stored created_at) is the timestamp string append
\* hashed (isoformat of the utcnow() it read), so the hash recomputed from the
\* stored row is the stored hash.
C37_TimestampRoundTrip ==
    \A i \in 1..Len(events) :
        /\ isoformat(events[i].created_at) = isoformat(utcnow(events[i].created_at.t))
        /\ events[i].hash = compute_event_hash(events[i].id, events[i].type, events[i].actor_id, events[i].workspace_id, events[i].contract_id, events[i].detail_json, events[i].prev_hash, isoformat(events[i].created_at))

\* C38: after a flow template has been deactivated, no create_request naming
\* that template creates a request: while the flow is inactive a call that
\* names it leaves the requests and the tasks as they are.
C38_InactiveFlowNotInstantiated ==
    [][\A ce \in BOOLEAN, f \in 1..Len(flows), st \in FlowInlineChoices, cb \in Creators :
          (create_approval_request(ce, f, st, cb) /\ ~flows[FindFlow(flows, f)].is_active) =>
              UNCHANGED <<requests, tasks>>]_vars

\* C39: every request that create_request persists has at least one task (so
\* that acting on its tasks can take it out of pending): a stage definition
\* list whose stages carry no assignee never yields a persisted request.
C39_RequestHasTask ==
    \A r \in 1..Len(requests) : TasksOf(tasks, r) # {}

====
